---- MODULE Spec2Model ----
(***************************************************************************)
(* CPU scheduling simulators of API/scheduling.py: fcfs, sjf,              *)
(* priority_scheduling and round_robin, each taking an Input object        *)
(* (processes: list of [pid, arrival, burst, priority], quantum: optional  *)
(* int) and returning {'finish': [...], 'order': [...]} or an error dict.  *)
(* One action per call, per loop iteration and per return.                 *)
(***************************************************************************)
EXTENDS Integers, Sequences, FiniteSets, TLC

\* ---------------------------------------------------------------- bounds
MaxN == 2          \* longest batch
MaxId == 2         \* process ids 1..MaxId
MaxArrival == 2    \* arrival times 0..MaxArrival
MaxBurst == 3      \* burst times 1..MaxBurst
MaxPri == 2        \* priorities 1..MaxPri
MaxQuantum == 2    \* quanta MinQuantum..MaxQuantum, or absent
MaxRuns == 2       \* calls made on the same Input object

MinQuantum == 0 - 1
\* caps for the loops that do not terminate on their own
MaxEvents == MaxN * MaxBurst + 3
MaxTime == MaxArrival + MaxN * MaxBurst + 2

\* ------------------------------------------------------------ data model
\* a process record is the list [pid, arrival, burst, priority]
Pid(p) == p[1]
Arrival(p) == p[2]
Burst(p) == p[3]
Priority(p) == p[4]

Records == (1..MaxId) \X (0..MaxArrival) \X (1..MaxBurst) \X (1..MaxPri)

RECURSIVE SeqsUpTo(_, _)
SeqsUpTo(S, n) ==
    IF n = 0 THEN {<<>>}
    ELSE LET shorter == SeqsUpTo(S, n - 1)
         IN  shorter \cup {Append(s, x) : s \in {t \in shorter : Len(t) = n - 1}, x \in S}

\* Scenario D of the specification: [(1,0,5,_), (2,1,3,_)]
ScenarioD == << <<1, 0, 5, 1>>, <<2, 1, 3, 1>> >>
ScenarioDQuantum == <<2>>

Batches == SeqsUpTo(Records, MaxN) \cup {ScenarioD}

\* Optional[int]: <<>> is None, <<q>> is the integer q
None == <<>>
Quanta == {None} \cup {<<q>> : q \in MinQuantum..MaxQuantum}

VARIABLES
    processes,         \* schedule.processes, the caller's list object
    schedule_quantum,  \* schedule.quantum
    pc,                \* "idle" or the engine whose loop is running
    time, order, finish,
    start, i,          \* fcfs: start list, position of the for loop
    completed,         \* sjf / priority: list of completed records
    process_dict, sorted_processes, queue, rr_completed, current_pid, n,
    results            \* what the calls made so far returned, oldest first

vars == <<processes, schedule_quantum, pc, time, order, finish, start, i,
          completed, process_dict, sorted_processes, queue, rr_completed,
          current_pid, n, results>>

rrLocals == <<process_dict, sorted_processes, queue, rr_completed, current_pid>>

\* --------------------------------------------------------------- helpers
InSeq(x, s) == \E k \in 1..Len(s) : s[k] = x

Min(a, b) == IF a <= b THEN a ELSE b

InsertBeforeEqual(p, s) ==
    LET k == Cardinality({j \in 1..Len(s) : Arrival(s[j]) < Arrival(p)})
    IN  SubSeq(s, 1, k) \o <<p>> \o SubSeq(s, k + 1, Len(s))

\* list.sort(key=lambda x: x[1]) / sorted(..., key=lambda x: x[1]): stable
InsertByArrival(p, s) ==
    LET k == Cardinality({j \in 1..Len(s) : Arrival(s[j]) <= Arrival(p)})
    IN  SubSeq(s, 1, k) \o <<p>> \o SubSeq(s, k + 1, Len(s))

RECURSIVE SortByArrival(_)
SortByArrival(s) ==
    IF s = <<>> THEN <<>>
    ELSE InsertByArrival(s[Len(s)], SortByArrival(SubSeq(s, 1, Len(s) - 1)))

AvailableIgnoringArrival(ps, t, done) ==
    SelectSeq(ps, LAMBDA p : ~InSeq(p, done))

AvailableIgnoringCompleted(ps, t, done) ==
    SelectSeq(ps, LAMBDA p : Arrival(p) <= t)

\* [p for p in processes if p[1] <= time and p not in completed]
Available(ps, t, done) ==
    SelectSeq(ps, LAMBDA p : Arrival(p) <= t /\ ~InSeq(p, done))

\* min(available, key=lambda x: x[k]): the first element with the least key
MinByKey(s, k) ==
    LET m == CHOOSE j \in 1..Len(s) :
                 /\ \A l \in 1..Len(s) : s[j][k] <= s[l][k]
                 /\ \A l \in 1..(j - 1) : s[l][k] > s[j][k]
    IN  s[m]

\* {p[0]: {...} for p in processes}: a later record with the same pid wins
LastWith(ps, pid) ==
    ps[CHOOSE k \in 1..Len(ps) :
           Pid(ps[k]) = pid /\ \A l \in (k + 1)..Len(ps) : Pid(ps[l]) # pid]

MakeProcessDict(ps) ==
    [pid \in {Pid(ps[k]) : k \in 1..Len(ps)} |->
        LET p == LastWith(ps, pid)
        IN  [arrival |-> Arrival(p), burst |-> Burst(p),
             priority |-> Priority(p), remaining |-> Burst(p)]]

\* the two admission loops of round_robin; except is {} or {current_pid}
RECURSIVE Admit(_, _, _, _, _, _)
Admit(sp, q, dict, t, done, except) ==
    IF sp = <<>> THEN q
    ELSE LET pid == Pid(Head(sp))
             q2 == IF /\ dict[pid].arrival <= t
                      /\ pid \notin done
                      /\ ~InSeq(pid, q)
                      /\ pid \notin except
                   THEN Append(q, pid) ELSE q
         IN  Admit(Tail(sp), q2, dict, t, done, except)

QuantumAbsentUnchecked(q) == FALSE

\* if quantum is None
QuantumAbsent(q) == q = None

Schedule(e) == [engine |-> e, quantum |-> schedule_quantum, kind |-> "schedule",
                finish |-> finish, order |-> order]
Error(e) == [engine |-> e, quantum |-> schedule_quantum, kind |-> "error",
             finish |-> <<>>, order |-> <<>>]

\* ------------------------------------------------------------------ Init
Init ==
    /\ processes \in Batches
    /\ schedule_quantum \in Quanta
    /\ pc = "idle"
    /\ time = 0 /\ order = <<>> /\ finish = <<>>
    /\ start = <<>> /\ i = 1
    /\ completed = <<>>
    /\ process_dict = <<>> /\ sorted_processes = <<>> /\ queue = <<>>
    /\ rr_completed = {} /\ current_pid = <<>> /\ n = 0
    /\ results = <<>>

CanCall == pc = "idle" /\ Len(results) < MaxRuns

\* the locals of a call are gone once it has returned
Return(e, r) ==
    /\ results' = Append(results, r)
    /\ pc' = "idle"
    /\ time' = 0 /\ order' = <<>> /\ finish' = <<>>
    /\ start' = <<>> /\ i' = 1
    /\ completed' = <<>>
    /\ process_dict' = <<>> /\ sorted_processes' = <<>> /\ queue' = <<>>
    /\ rr_completed' = {} /\ current_pid' = <<>> /\ n' = 0
    /\ UNCHANGED <<processes, schedule_quantum>>

\* ------------------------------------------------------------------ fcfs
StartTimeNoGap(t, at) == t

StartTimeAtArrival(t, at) == at

\* if time < at: time = at
StartTime(t, at) == IF t < at THEN at ELSE t

FcfsCall ==
    /\ CanCall
    /\ processes' = SortByArrival(processes)
    /\ start' = <<>> /\ finish' = <<>> /\ order' = <<>>
    /\ time' = 0
    /\ i' = 1
    /\ pc' = "fcfs"
    /\ UNCHANGED <<schedule_quantum, completed, rrLocals, n, results>>

FcfsStep ==
    /\ pc = "fcfs"
    /\ i <= Len(processes)
    /\ LET p == processes[i]
           t0 == StartTime(time, Arrival(p))
       IN  /\ start' = Append(start, t0)
           /\ time' = t0 + Burst(p)
           /\ finish' = Append(finish, t0 + Burst(p))
           /\ order' = Append(order, Pid(p))
    /\ i' = i + 1
    /\ UNCHANGED <<processes, schedule_quantum, pc, completed, rrLocals, n, results>>

FcfsReturn ==
    /\ pc = "fcfs"
    /\ i > Len(processes)
    /\ Return("fcfs", Schedule("fcfs"))

\* ------------------------------------------------------------------- sjf
SjfCall ==
    /\ CanCall
    /\ processes' = SortByArrival(processes)
    /\ n' = Len(processes)
    /\ time' = 0 /\ completed' = <<>> /\ order' = <<>> /\ finish' = <<>>
    /\ pc' = "sjf"
    /\ UNCHANGED <<schedule_quantum, start, i, rrLocals, results>>

SjfIdleStuck ==
    /\ pc = "sjf"
    /\ Len(completed) < n
    /\ Available(processes, time, completed) = <<>>
    /\ UNCHANGED vars

\* if not available: time += 1; continue
SjfIdle ==
    /\ pc = "sjf"
    /\ Len(completed) < n
    /\ Available(processes, time, completed) = <<>>
    /\ time < MaxTime
    /\ time' = time + 1
    /\ UNCHANGED <<processes, schedule_quantum, pc, order, finish, start, i,
                   completed, rrLocals, n, results>>

SjfDispatch ==
    /\ pc = "sjf"
    /\ Len(completed) < n
    /\ Available(processes, time, completed) # <<>>
    /\ LET p == MinByKey(Available(processes, time, completed), 3)
       IN  /\ time' = time + Burst(p)
           /\ completed' = Append(completed, p)
           /\ order' = Append(order, Pid(p))
           /\ finish' = Append(finish, time + Burst(p))
    /\ UNCHANGED <<processes, schedule_quantum, pc, start, i, rrLocals, n, results>>

SjfReturn ==
    /\ pc = "sjf"
    /\ ~(Len(completed) < n)
    /\ Return("sjf", Schedule("sjf"))

\* --------------------------------------------------- priority_scheduling
PriCall ==
    /\ CanCall
    /\ processes' = SortByArrival(processes)
    /\ n' = Len(processes)
    /\ time' = 0 /\ completed' = <<>> /\ order' = <<>> /\ finish' = <<>>
    /\ pc' = "pri"
    /\ UNCHANGED <<schedule_quantum, start, i, rrLocals, results>>

PriIdle ==
    /\ pc = "pri"
    /\ Len(completed) < n
    /\ Available(processes, time, completed) = <<>>
    /\ time < MaxTime
    /\ time' = time + 1
    /\ UNCHANGED <<processes, schedule_quantum, pc, order, finish, start, i,
                   completed, rrLocals, n, results>>

PriDispatch ==
    /\ pc = "pri"
    /\ Len(completed) < n
    /\ Available(processes, time, completed) # <<>>
    /\ LET p == MinByKey(Available(processes, time, completed), 4)
       IN  /\ time' = time + Burst(p)
           /\ completed' = Append(completed, p)
           /\ order' = Append(order, Pid(p))
           /\ finish' = Append(finish, time + Burst(p))
    /\ UNCHANGED <<processes, schedule_quantum, pc, start, i, rrLocals, n, results>>

PriReturn ==
    /\ pc = "pri"
    /\ ~(Len(completed) < n)
    /\ Return("pri", Schedule("pri"))

\* ----------------------------------------------------------- round_robin
RRCall ==
    /\ CanCall
    /\ IF QuantumAbsent(schedule_quantum)
       THEN /\ results' = Append(results, Error("rr"))
            /\ UNCHANGED <<pc, time, order, finish, rrLocals, n>>
       ELSE /\ process_dict' = MakeProcessDict(processes)
            /\ sorted_processes' = SortByArrival(processes)
            /\ time' = 0
            /\ queue' = <<>>
            /\ rr_completed' = {}
            /\ order' = <<>> /\ finish' = <<>>
            /\ n' = Len(processes)
            /\ pc' = "rr"
            /\ UNCHANGED <<current_pid, results>>
    /\ UNCHANGED <<processes, schedule_quantum, start, i, completed>>

\* the queue as the first admission loop of an iteration leaves it
Admitted == Admit(sorted_processes, queue, process_dict, time, rr_completed, {})

RRIdle ==
    /\ pc = "rr"
    /\ Cardinality(rr_completed) < n
    /\ Admitted = <<>>
    /\ time < MaxTime
    /\ queue' = Admitted
    /\ time' = time + 1
    /\ UNCHANGED <<processes, schedule_quantum, pc, order, finish, start, i,
                   completed, process_dict, sorted_processes, rr_completed,
                   current_pid, n, results>>

\* exec_time = min(quantum, process_dict[current_pid]["remaining"])
ExecTimeWholeQuantum(quantum, remaining) == quantum

ExecTime(quantum, remaining) == Min(quantum, remaining)

\* the queue after a slice of pid that ended at t: the processes that arrived
\* meanwhile are appended first, then pid again if it still has work
AfterSliceRequeueFirst(q, dict, t, done, pid) ==
    LET requeued == IF dict[pid].remaining > 0 THEN Append(q, pid) ELSE q
    IN  Admit(sorted_processes, requeued, dict, t, done, {pid})

AfterSliceAlwaysRequeue(q, dict, t, done, pid) ==
    Append(Admit(sorted_processes, q, dict, t, done, {pid}), pid)

AfterSlice(q, dict, t, done, pid) ==
    LET arrived == Admit(sorted_processes, q, dict, t, done, {pid})
    IN  IF dict[pid].remaining > 0 THEN Append(arrived, pid) ELSE arrived

RRDispatch ==
    /\ pc = "rr"
    /\ Cardinality(rr_completed) < n
    /\ Admitted # <<>>
    /\ Len(order) < MaxEvents
    /\ LET pid == Head(Admitted)
           exec_time == ExecTime(schedule_quantum[1], process_dict[pid].remaining)
           remaining == process_dict[pid].remaining - exec_time
           dict == [process_dict EXCEPT ![pid].remaining = remaining]
           t == time + exec_time
       IN  /\ current_pid' = <<pid>>
           /\ process_dict' = dict
           /\ time' = t
           /\ order' = Append(order, pid)
           /\ finish' = Append(finish, t)
           /\ queue' = AfterSlice(Tail(Admitted), dict, t, rr_completed, pid)
           /\ rr_completed' = IF remaining > 0 THEN rr_completed
                              ELSE rr_completed \cup {pid}
    /\ UNCHANGED <<processes, schedule_quantum, pc, start, i, completed,
                   sorted_processes, n, results>>

RRReturn ==
    /\ pc = "rr"
    /\ ~(Cardinality(rr_completed) < n)
    /\ Return("rr", Schedule("rr"))

Next ==
    \/ FcfsCall \/ FcfsStep \/ FcfsReturn
    \/ SjfCall \/ SjfIdle \/ SjfDispatch \/ SjfReturn
    \/ PriCall \/ PriIdle \/ PriDispatch \/ PriReturn
    \/ RRCall \/ RRIdle \/ RRDispatch \/ RRReturn

Spec == Init /\ [][Next]_vars

\* a call that has started keeps running: the engines are sequential code
\* with no suspension point, so a loop iteration or return that can be
\* taken is taken; nothing obliges the caller to make a call
Steps ==
    \/ FcfsStep \/ FcfsReturn
    \/ SjfIdle \/ SjfDispatch \/ SjfReturn
    \/ PriIdle \/ PriDispatch \/ PriReturn
    \/ RRIdle \/ RRDispatch \/ RRReturn

FairSpec == Spec /\ WF_vars(Steps)

TypeOK ==
    /\ pc \in {"idle", "fcfs", "sjf", "pri", "rr"}
    /\ Len(results) <= MaxRuns
    /\ Len(order) = Len(finish)

\* ---------------------------------------------------------------- claims
\* the batch validation the engines assume: unique ids, arrival >= 0, burst > 0
WellFormed(ps) ==
    /\ \A k, l \in 1..Len(ps) : Pid(ps[k]) = Pid(ps[l]) => k = l
    /\ \A k \in 1..Len(ps) : Arrival(ps[k]) >= 0 /\ Burst(ps[k]) > 0

QuantumPositive == schedule_quantum # None /\ schedule_quantum[1] > 0
QuantumNonPositive == schedule_quantum # None /\ schedule_quantum[1] <= 0

ResultsOf(e) == {k \in 1..Len(results) : results[k].engine = e}

\* C1: round_robin with a quantum that is present but <= 0 reports an error
\* and produces no schedule: it never enters the simulation loop with that
\* quantum and every round_robin result is an error.
C1_NonPositiveQuantumIsError ==
    QuantumNonPositive =>
        /\ pc # "rr"
        /\ \A k \in ResultsOf("rr") : results[k].kind = "error"

\* C2: round_robin with no quantum returns only an error value, for any
\* batch: the loop is never entered (no dispatch, no clock step) and the
\* returned value carries no order or finish sequence.
C2_AbsentQuantumOnlyError ==
    (schedule_quantum = None) =>
        /\ pc # "rr"
        /\ \A k \in ResultsOf("rr") :
               /\ results[k].kind = "error"
               /\ results[k].order = <<>>
               /\ results[k].finish = <<>>

C2_Witness ==
    /\ schedule_quantum = None
    /\ processes = <<>>
    /\ ResultsOf("rr") # {}

\* C3: with quantum > 0, right after a slice of P that leaves P with work,
\* P is the last entry of the queue and every other arrived, uncompleted
\* process is queued ahead of it; hence between two slices of P every
\* process that had arrived by the end of the first and was not completed
\* then is dispatched.
C3_ArrivalsAheadOfRequeued ==
    (pc = "rr" /\ QuantumPositive) =>
        /\ (current_pid # <<>> /\ process_dict[current_pid[1]].remaining > 0) =>
               /\ queue # <<>>
               /\ \A k \in 1..Len(queue) :
                      queue[k] = current_pid[1] <=> k = Len(queue)
               /\ \A pid \in DOMAIN process_dict :
                      ( /\ pid # current_pid[1]
                        /\ pid \notin rr_completed
                        /\ process_dict[pid].arrival <= time )
                      => \E k \in 1..(Len(queue) - 1) : queue[k] = pid
        /\ \A a, b \in 1..Len(order) : \A pid \in DOMAIN process_dict :
               ( /\ a < b
                 /\ order[a] = order[b]
                 /\ pid # order[a]
                 /\ process_dict[pid].arrival <= finish[a]
                 /\ \/ pid \notin rr_completed
                    \/ \E k \in (a + 1)..Len(order) : order[k] = pid )
               => \E k \in (a + 1)..(b - 1) : order[k] = pid

\* the second process arrived during the first slice of the first one and
\* ran between its first two slices
C3_Witness ==
    /\ pc = "rr" /\ QuantumPositive
    /\ Len(order) >= 3
    /\ order[1] = order[3] /\ order[2] # order[1]
    /\ process_dict[order[2]].arrival > finish[1] - schedule_quantum[1]
    /\ process_dict[order[2]].arrival <= finish[1]

\* ---- reading a returned timeline (order, finish) against the batch
ArrivalOf(ps, pid) == Arrival(LastWith(ps, pid))
BurstOf(ps, pid) == Burst(LastWith(ps, pid))

Max(a, b) == IF a >= b THEN a ELSE b

\* the time units executed by event k: from the later of the previous finish
\* and the process's arrival up to the finish of event k
SliceLen(ps, ord, fin, k) ==
    fin[k] - Max(IF k = 1 THEN 0 ELSE fin[k - 1], ArrivalOf(ps, ord[k]))

\* the time units executed for pid by the events 1..k
RECURSIVE Executed(_, _, _, _, _)
Executed(ps, ord, fin, pid, k) ==
    IF k = 0 THEN 0
    ELSE Executed(ps, ord, fin, pid, k - 1)
         + (IF ord[k] = pid THEN SliceLen(ps, ord, fin, k) ELSE 0)

EventsOf(ord, pid) == {k \in 1..Len(ord) : ord[k] = pid}

\* a result the claims about well-formed input speak of
Proper(r) ==
    /\ r.kind = "schedule"
    /\ r.engine = "rr" => (r.quantum # None /\ r.quantum[1] > 0)

\* C4: on a well-formed batch every engine's result names every input id
\* at least once and the time executed for the id over all its events is
\* its burst; round_robin leaves its loop with every remaining at 0.
C4_EveryProcessFullyExecuted ==
    WellFormed(processes) =>
        /\ \A k \in 1..Len(results) : Proper(results[k]) =>
               \A j \in 1..Len(processes) :
                   LET pid == Pid(processes[j])
                       r == results[k]
                   IN  /\ EventsOf(r.order, pid) # {}
                       /\ Executed(processes, r.order, r.finish, pid, Len(r.order))
                              = Burst(processes[j])
        /\ (pc = "rr" /\ QuantumPositive /\ ~(Cardinality(rr_completed) < n)) =>
               /\ \A pid \in DOMAIN process_dict : process_dict[pid].remaining = 0
               /\ \A j \in 1..Len(processes) : Pid(processes[j]) \in rr_completed

\* two processes went through sjf and then through round_robin in slices
C4_Witness ==
    /\ WellFormed(processes) /\ Len(processes) = 2
    /\ Len(results) = 2
    /\ results[1].engine = "sjf" /\ Len(results[1].order) = 2
    /\ results[2].engine = "rr" /\ Len(results[2].order) > 2

\* C5: on a well-formed batch of n processes fcfs, sjf and priority return
\* exactly n events, exactly one for each process id.
C5_OneEventPerProcess ==
    WellFormed(processes) =>
        \A k \in ResultsOf("fcfs") \cup ResultsOf("sjf") \cup ResultsOf("pri") :
            /\ results[k].kind = "schedule"
            /\ Len(results[k].order) = Len(processes)
            /\ Len(results[k].finish) = Len(processes)
            /\ \A j \in 1..Len(processes) :
                   Cardinality(EventsOf(results[k].order, Pid(processes[j]))) = 1

C5_Witness ==
    /\ WellFormed(processes) /\ Len(processes) = 2
    /\ Len(results) = 2
    /\ results[1].engine = "pri" /\ Len(results[1].order) = 2
    /\ results[2].engine = "fcfs" /\ Len(results[2].order) = 2

Ceil(b, q) == (b + q - 1) \div q

\* every event k of the timeline executes min(q, what was left of its process)
SlicesAreQuantumOrRest(ps, ord, fin, q) ==
    \A k \in 1..Len(ord) :
        SliceLen(ps, ord, fin, k)
            = Min(q, BurstOf(ps, ord[k]) - Executed(ps, ord, fin, ord[k], k - 1))

\* C6: round_robin with quantum q > 0 on a well-formed batch: every slice
\* executes min(q, remaining), and in the result a process with burst b has
\* exactly ceil(b / q) events.
C6_SliceCountIsCeil ==
    (WellFormed(processes) /\ QuantumPositive) =>
        /\ pc = "rr" =>
               /\ SlicesAreQuantumOrRest(processes, order, finish, schedule_quantum[1])
               /\ \A j \in 1..Len(processes) :
                      Cardinality(EventsOf(order, Pid(processes[j])))
                          <= Ceil(Burst(processes[j]), schedule_quantum[1])
        /\ \A k \in ResultsOf("rr") :
               /\ SlicesAreQuantumOrRest(processes, results[k].order,
                                          results[k].finish, schedule_quantum[1])
               /\ \A j \in 1..Len(processes) :
                      Cardinality(EventsOf(results[k].order, Pid(processes[j])))
                          = Ceil(Burst(processes[j]), schedule_quantum[1])

\* a burst of 3 was served with quantum 2: one slice of 2, one of 1
C6_Witness ==
    /\ WellFormed(processes) /\ schedule_quantum = <<2>>
    /\ \E k \in ResultsOf("rr") : \E j \in 1..Len(processes) :
           /\ Burst(processes[j]) = 3
           /\ Cardinality(EventsOf(results[k].order, Pid(processes[j]))) = 2

\* C7 as stated: a single-process batch yields exactly one event, finishing
\* at arrival + burst, under every policy (round_robin with any quantum > 0).
C7_SingleProcessOneEvent ==
    Len(processes) = 1 =>
        \A k \in 1..Len(results) : Proper(results[k]) =>
            /\ Len(results[k].order) = 1
            /\ results[k].finish[1] = Arrival(processes[1]) + Burst(processes[1])

\* C7 amended: a single-process batch (arrival a, burst b) yields only
\* events of that process, the last one finishing at a + b; there is exactly
\* one event under fcfs, sjf and priority and under round_robin with
\* quantum >= b, and ceil(b / quantum) events under round_robin otherwise.
C7_SingleProcessFinishesAtArrivalPlusBurst ==
    Len(processes) = 1 =>
        \A k \in 1..Len(results) : Proper(results[k]) =>
            LET r == results[k]
                b == Burst(processes[1])
            IN  /\ Len(r.order) >= 1
                /\ \A e \in 1..Len(r.order) : r.order[e] = Pid(processes[1])
                /\ r.finish[Len(r.finish)] = Arrival(processes[1]) + b
                /\ (r.engine # "rr" \/ r.quantum[1] >= b) => Len(r.order) = 1
                /\ r.engine = "rr" => Len(r.order) = Ceil(b, r.quantum[1])

\* one process, arriving late, served by round_robin in more than one slice
\* after fcfs served it in one
C7_Witness ==
    /\ Len(processes) = 1 /\ Arrival(processes[1]) > 0
    /\ Len(results) = 2
    /\ results[1].engine = "fcfs" /\ Len(results[1].order) = 1
    /\ results[2].engine = "rr" /\ Len(results[2].order) > 1

IsScenarioD(r) ==
    /\ processes = ScenarioD
    /\ r.engine = "rr" /\ r.quantum = ScenarioDQuantum

\* C8 as stated: Scenario D yields the events (1,2),(2,3),(1,4),(2,5),(1,7).
C8_ScenarioDAsStated ==
    \A k \in 1..Len(results) : IsScenarioD(results[k]) =>
        /\ results[k].kind = "schedule"
        /\ results[k].order = <<1, 2, 1, 2, 1>>
        /\ results[k].finish = <<2, 3, 4, 5, 7>>

\* C8 amended: Scenario D yields the events (1,2),(2,4),(1,6),(2,7),(1,8):
\* process 1 finishes at 8 and process 2 at 7.
C8_ScenarioDTimeline ==
    \A k \in 1..Len(results) : IsScenarioD(results[k]) =>
        /\ results[k].kind = "schedule"
        /\ results[k].order = <<1, 2, 1, 2, 1>>
        /\ results[k].finish = <<2, 4, 6, 7, 8>>

C8_Witness == \E k \in 1..Len(results) : IsScenarioD(results[k])

\* C9: two calls of the same engine in succession on the same Input object
\* return the same value: same kind, same order and same finish sequence.
C9_SameEngineTwiceSameResult ==
    \A k \in 1..(Len(results) - 1) :
        results[k].engine = results[k + 1].engine =>
            /\ results[k].kind = results[k + 1].kind
            /\ results[k].order = results[k + 1].order
            /\ results[k].finish = results[k + 1].finish

\* sjf ran twice on two processes that arrived together
C9_Witness ==
    /\ Len(results) = 2
    /\ results[1].engine = "sjf" /\ results[2].engine = "sjf"
    /\ Len(results[2].order) = 2
    /\ Len(processes) = 2 /\ Arrival(processes[1]) = Arrival(processes[2])

\* C10: no step of any engine changes the caller's (well-formed) batch: same
\* records, same sequence order, same field values.
C10_BatchUnchanged == [][WellFormed(processes) => processes' = processes]_vars
\* C11: on a well-formed batch (quantum > 0 for round_robin) every started
\* call eventually leaves its loop and returns its result.
C11_WellFormedRunReturns ==
    ( /\ pc # "idle"
      /\ WellFormed(processes)
      /\ pc = "rr" => QuantumPositive )
    ~> pc = "idle"

\* sjf returned after idling up to the arrival of a process; round_robin
\* returned after serving two processes in more than two slices
C11_Witness ==
    /\ WellFormed(processes) /\ Len(processes) = 2
    /\ Arrival(processes[1]) > 0
    /\ Len(results) = 2
    /\ results[1].engine = "sjf" /\ results[1].kind = "schedule"
    /\ results[2].engine = "rr" /\ Len(results[2].order) > 2
\* C12: on a well-formed batch, however the caller ordered it, fcfs
\* dispatches in ascending arrival time and, among equal arrival times, in
\* ascending process id.
C12_FcfsByArrivalThenId ==
    WellFormed(processes) =>
        \A k \in ResultsOf("fcfs") :
            \A a, b \in 1..Len(results[k].order) :
                LET pa == LastWith(processes, results[k].order[a])
                    pb == LastWith(processes, results[k].order[b])
                IN  a < b =>
                        \/ Arrival(pa) < Arrival(pb)
                        \/ Arrival(pa) = Arrival(pb) /\ Pid(pa) < Pid(pb)

\* p comes no later than r under (field k, then arrival, then id), ascending
KeyLeq(p, r, k) ==
    \/ p[k] < r[k]
    \/ /\ p[k] = r[k]
       /\ \/ Arrival(p) < Arrival(r)
          \/ Arrival(p) = Arrival(r) /\ Pid(p) <= Pid(r)

\* sjf / priority: the records eligible at the decision that chose
\* completed[k], taken at clock finish[k] - burst of completed[k]
EligibleAt(k) ==
    {j \in 1..Len(processes) :
        /\ Arrival(processes[j]) <= finish[k] - Burst(completed[k])
        /\ ~InSeq(processes[j], SubSeq(completed, 1, k - 1))}

\* C13: on a well-formed batch every sjf decision dispatches the eligible
\* process that is least under (burst, arrival, id).
C13_SjfPicksLeastBurstArrivalId ==
    (pc = "sjf" /\ WellFormed(processes)) =>
        \A k \in 1..Len(completed) : \A j \in EligibleAt(k) :
            KeyLeq(completed[k], processes[j], 3)

\* C14: on a well-formed batch every priority decision dispatches the
\* eligible process that is least under (priority, arrival, id), and the
\* process then runs for its whole burst before the next decision.
C14_PriPicksLeastPriorityArrivalId ==
    (pc = "pri" /\ WellFormed(processes)) =>
        \A k \in 1..Len(completed) :
            /\ \A j \in EligibleAt(k) : KeyLeq(completed[k], processes[j], 4)
            /\ finish[k] >= (IF k = 1 THEN 0 ELSE finish[k - 1]) + Burst(completed[k])
            /\ order[k] = Pid(completed[k])

\* the least arrival time among the processes not yet served
MinUnservedArrival ==
    LET unserved ==
            IF pc = "rr"
            THEN {process_dict[pid].arrival : pid \in DOMAIN process_dict \ rr_completed}
            ELSE {Arrival(processes[j]) : j \in {l \in 1..Len(processes) :
                                                   ~InSeq(processes[l], completed)}}
    IN  CHOOSE a \in unserved : \A b \in unserved : a <= b

\* a loop iteration of sjf, priority or round_robin that found nothing to run
IdleStep ==
    /\ pc \in {"sjf", "pri", "rr"} /\ pc' = pc
    /\ order' = order
    /\ time' # time

\* C15: on a well-formed batch an iteration that finds no eligible process
\* sets the clock to the least arrival time among the unserved processes.
C15_IdleJumpsToNextArrival ==
    [][(WellFormed(processes) /\ IdleStep) => time' = MinUnservedArrival]_vars

HasDuplicateIds(ps) ==
    \E k, l \in 1..Len(ps) : k # l /\ Pid(ps[k]) = Pid(ps[l])

\* C16: on a batch with duplicate ids no loop runs forever. The clock is
\* all that changes in an idle iteration, so a loop whose condition holds
\* when every record (sjf, priority: by value; round_robin: by id) already
\* counts as completed can never exit; the claim excludes such a state.
C16_DuplicateIdsLoopCanExit ==
    HasDuplicateIds(processes) =>
        /\ (pc \in {"sjf", "pri"} /\ Len(completed) < n) =>
               \E j \in 1..Len(processes) : ~InSeq(processes[j], completed)
        /\ (pc = "rr" /\ QuantumPositive /\ Cardinality(rr_completed) < n) =>
               \E pid \in DOMAIN process_dict : pid \notin rr_completed
\* C17: in fcfs, with the clock starting at 0, the k-th dispatched process
\* finishes at max(previous finish (0 for the first), its arrival) + its
\* burst; it starts at that maximum, so never before its arrival and with
\* no idle time once it has arrived.
C17_FcfsFinishRecurrence ==
    /\ pc = "fcfs" =>
           /\ Len(finish) = i - 1 /\ Len(start) = i - 1 /\ Len(order) = i - 1
           /\ time = (IF i = 1 THEN 0 ELSE finish[i - 1])
           /\ \A k \in 1..Len(finish) :
                  LET prev == IF k = 1 THEN 0 ELSE finish[k - 1]
                  IN  /\ order[k] = Pid(processes[k])
                      /\ start[k] = Max(prev, Arrival(processes[k]))
                      /\ finish[k] = Max(prev, Arrival(processes[k])) + Burst(processes[k])
    /\ WellFormed(processes) =>
           \A r \in ResultsOf("fcfs") : \A k \in 1..Len(results[r].finish) :
               LET prev == IF k = 1 THEN 0 ELSE results[r].finish[k - 1]
                   p == LastWith(processes, results[r].order[k])
               IN  results[r].finish[k] = Max(prev, Arrival(p)) + Burst(p)

\* the second process arrived after the first had finished: an idle gap
C17_Witness ==
    /\ pc = "fcfs" /\ Len(finish) = 2
    /\ Arrival(processes[2]) > finish[1]

\* a loop iteration of sjf, priority or round_robin that ran a process
DispatchStep ==
    /\ pc \in {"sjf", "pri", "rr"} /\ pc' = pc
    /\ Len(order') = Len(order) + 1

\* C18: on a well-formed batch (quantum > 0 for round_robin) the process an
\* iteration of sjf, priority or round_robin dispatches has arrived by the
\* clock at the start of the execution and is not completed.
C18_DispatchedArrivedAndNotCompleted ==
    [][ ( /\ WellFormed(processes)
          /\ pc = "rr" => QuantumPositive
          /\ DispatchStep )
        => IF pc = "rr"
           THEN LET pid == order'[Len(order')]
                IN  /\ process_dict[pid].arrival <= time
                    /\ pid \notin rr_completed
                    /\ process_dict[pid].remaining > 0
           ELSE LET p == completed'[Len(completed')]
                IN  /\ order'[Len(order')] = Pid(p)
                    /\ Arrival(p) <= time
                    /\ \A k \in 1..Len(completed) : Pid(completed[k]) # Pid(p) ]_vars

\* priority ran a second process, which arrived while the first was running
C18_Witness ==
    /\ pc = "pri" /\ WellFormed(processes)
    /\ Len(completed) = 2
    /\ Arrival(completed[2]) > Arrival(completed[1])
    /\ Arrival(completed[2]) < finish[1]

StrictlyIncreasing(s) == \A a, b \in 1..Len(s) : a < b => s[a] < s[b]

\* C19: on a well-formed batch (quantum > 0 for round_robin) no loop
\* iteration of any engine lowers the clock, and the finish times, in the
\* running call and in every returned result, increase strictly.
C19_ClockMonotoneFinishIncreasing ==
    [][ WellFormed(processes) =>
           /\ (pc # "idle" /\ pc' = pc /\ (pc = "rr" => QuantumPositive)) =>
                  time' >= time
           /\ (pc' = "rr" => QuantumPositive) => StrictlyIncreasing(finish')
           /\ \A k \in 1..Len(results') :
                  Proper(results'[k]) => StrictlyIncreasing(results'[k].finish) ]_vars

\* round_robin idled up to the first arrival, then ran three slices
C19_Witness ==
    /\ pc = "rr" /\ WellFormed(processes) /\ QuantumPositive
    /\ Len(finish) >= 3
    /\ process_dict[order[1]].arrival > 0
    /\ Len(results) = 1 /\ results[1].engine = "fcfs" /\ Len(results[1].finish) = 2

\* C20: round_robin on a well-formed batch with quantum > 0, wherever the
\* loop condition is evaluated: the queue holds no id twice and no completed
\* process, every queued process has arrived and has work left, and a
\* process is completed exactly if its remaining is 0 and it was dispatched.
C20_QueueInvariant ==
    (pc = "rr" /\ WellFormed(processes) /\ QuantumPositive) =>
        /\ \A a, b \in 1..Len(queue) : queue[a] = queue[b] => a = b
        /\ \A a \in 1..Len(queue) :
               /\ queue[a] \in DOMAIN process_dict
               /\ queue[a] \notin rr_completed
               /\ process_dict[queue[a]].arrival <= time
               /\ process_dict[queue[a]].remaining > 0
        /\ \A pid \in DOMAIN process_dict :
               pid \in rr_completed <=>
                   (process_dict[pid].remaining = 0 /\ InSeq(pid, order))

\* one process is completed, the other is queued with work left
C20_Witness ==
    /\ pc = "rr" /\ WellFormed(processes) /\ QuantumPositive
    /\ Cardinality(rr_completed) = 1
    /\ Len(queue) = 1
    /\ Len(order) >= 3
====
